---- MODULE Spec2Model ----
(***************************************************************************)
(* A model of src/stack.c: the byte stack (Stack = {dataSize,              *)
(* stackPointer, data}) with newStack, pushToStack, popStackWithoutBuffer, *)
(* popStackToBuffer, popStack, getStackSlice and destroyStack.             *)
(*                                                                         *)
(* Every function of the file is an operator that computes what the C code *)
(* computes, loop iteration by loop iteration; every action applies one    *)
(* function as a whole call.  Memory blocks are sequences of cells; a cell *)
(* that was allocated and never written holds Undef (an indeterminate      *)
(* value).  unsigned long arithmetic is taken modulo 2^LongBits.           *)
(***************************************************************************)
EXTENDS Integers, Sequences, FiniteSets, TLC

VARIABLES
    config,     \* what config.h's provider returns: initial size and step
    stack,      \* the Stack struct: dataSize, stackPointer, data
    status,     \* "Live", "Destroyed", or "Undefined" after a faulting access
    last,       \* the last call: its arguments, its result, what it touched
    pushed,     \* ghost: total number of bytes pushed so far
    popped,     \* ghost: total number of bytes popped so far
    content,    \* ghost: the bytes pushed and not yet popped, in push order
    fetched,    \* ghost: the sum of the steps the provider returned to growths,
                \* in unsigned long arithmetic
    released,   \* the pointers handed to free, in order
    held,       \* a buffer returned by popStack or getStackSlice the caller keeps
    run         \* the call in progress when calls are followed step by step

vars == <<config, stack, status, last, pushed, popped, content, fetched,
          released, held, run>>

----------------------------------------------------------------------------
(* Bounds of the model *)

\* unsigned long is LongBits wide in the model
LongBits == 5
\* bytes pushed by the callers are 0..MaxByte
MaxByte == 1
\* the largest count handed to one push, pop or slice
MaxCount == 3
\* the total number of bytes pushed in one behaviour
MaxPushed == 4

Modulus == 2 ^ LongBits

Byte == 0 .. MaxByte

\* the content of an allocated cell that was never written
Undef == -1

\* values the configuration provider (config.h) may be set up to return:
\* positive integers
InitialSizes == {1, 2}
StepSizes == {1, 2}

\* the byte sequences callers push
Inputs == UNION {[1 .. n -> Byte] : n \in 0 .. MaxCount}

RECURSIVE Reverse(_)
Reverse(s) == IF s = <<>> THEN <<>> ELSE Append(Reverse(Tail(s)), Head(s))

Min(a, b) == IF a <= b THEN a ELSE b

----------------------------------------------------------------------------
(* Memory: stdlib's malloc / realloc and pointer accesses *)

\* A pointer is NULL or points to cells mem; alias tells whether these are
\* cells of the stack's backing store (from index at on) rather than a block
\* of their own
NULL == [null |-> TRUE, mem |-> <<>>, alias |-> FALSE, at |-> 0]

\* malloc(size): a fresh block of indeterminate cells, or NULL when it fails
malloc(size, ok) ==
    IF ok
    THEN [null |-> FALSE, mem |-> [i \in 1 .. size |-> Undef],
          alias |-> FALSE, at |-> 0]
    ELSE NULL

\* mutant: a realloc that hands out a fresh block and copies nothing
realloc_Fresh(ptr, size, ok) ==
    IF ok
    THEN [null |-> FALSE, mem |-> [i \in 1 .. size |-> Undef],
          alias |-> FALSE, at |-> 0]
    ELSE [null |-> TRUE, mem |-> <<>>, alias |-> FALSE, at |-> 0]

\* realloc(ptr, size): the first min(old, size) cells kept, the rest
\* indeterminate; NULL (the old block left alone and lost) when it fails
realloc(ptr, size, ok) ==
    IF ok
    THEN [null |-> FALSE,
          mem |-> [i \in 1 .. size |->
                      IF i <= Len(ptr.mem) THEN ptr.mem[i] ELSE Undef],
          alias |-> FALSE, at |-> 0]
    ELSE NULL

\* ptr[i] is an access inside the block ptr points to
InBlock(ptr, i) == ~ptr.null /\ i >= 0 /\ i < Len(ptr.mem)

\* the value read by ptr[i]
Load(ptr, i) == IF InBlock(ptr, i) THEN ptr.mem[i + 1] ELSE Undef

\* the block after ptr[i] = v; a write outside the block does not land in it
Store(ptr, i, v) ==
    IF InBlock(ptr, i) THEN [ptr EXCEPT !.mem[i + 1] = v] ELSE ptr

\* the faults of the access ptr[i]
Fault(ptr, i) ==
    IF ptr.null THEN {"null"} ELSE IF InBlock(ptr, i) THEN {} ELSE {"bounds"}

----------------------------------------------------------------------------
(* The functions of stack.c.  A call in progress is a record x:            *)
(*   stack   the Stack it works on                                         *)
(*   buffer  the caller's or the freshly allocated output buffer           *)
(*   grows   the number of growth events (realloc calls) so far            *)
(*   touched the indices of stack.data read or written by the function     *)
(*   faults  the faults of its accesses ("null", "bounds")                 *)

Call(st, buf) ==
    [stack |-> st, buffer |-> buf, grows |-> 0, touched |-> {}, faults |-> {}]

\* Stack newStack(): the provider is asked twice, init1 for the dataSize
\* field and init2 for the size handed to malloc.  The initializer is
\* positional; its fields are taken in the order dataSize, stackPointer,
\* data (stack.h declares the struct)
newStack(init1, init2, ok) ==
    [dataSize |-> init1, stackPointer |-> 0, data |-> malloc(init2, ok)]

\* mutant: while (stackPointer > dataSize), one byte too late
RECURSIVE growLoop_OffByOne(_, _, _)
growLoop_OffByOne(x, steps, fails) ==
    IF x.stack.stackPointer > x.stack.dataSize
    THEN LET k == x.grows + 1
             size == (x.stack.dataSize + steps[k]) % Modulus
         IN growLoop_OffByOne(
                [x EXCEPT !.stack.dataSize = size,
                          !.stack.data = realloc(@, size, k \notin fails),
                          !.grows = k],
                steps, fails)
    ELSE x

\* a while loop that lets the stack pointer reach one past the capacity
needsGrowth_Strict(x) == x.stack.stackPointer > x.stack.dataSize

\* the condition of pushToStack's while loop
needsGrowth(x) == x.stack.stackPointer >= x.stack.dataSize

\* the body of pushToStack's while loop, one growth event: dataSize += step,
\* step what getStackExpansionStepSize() returns now, and the realloc
growOnce(x, step, ok) ==
    LET size == (x.stack.dataSize + step) % Modulus
    IN [x EXCEPT !.stack.dataSize = size,
                 !.stack.data = realloc(@, size, ok),
                 !.grows = @ + 1]

\* the while loop of pushToStack: one growth event per iteration.  steps[k]
\* is what getStackExpansionStepSize() returns at the k-th growth event of
\* the call, fails the growth events whose realloc fails
RECURSIVE growLoop(_, _, _)
growLoop(x, steps, fails) ==
    IF needsGrowth(x)
    THEN LET k == x.grows + 1
         IN growLoop(growOnce(x, steps[k], k \notin fails), steps, fails)
    ELSE x

\* data[stackPointer++] = byte
storeByte(x, byte) ==
    LET sp == x.stack.stackPointer
    IN [x EXCEPT !.stack.data = Store(@, sp, byte),
                 !.stack.stackPointer = (sp + 1) % Modulus,
                 !.touched = @ \cup {sp},
                 !.faults = @ \cup Fault(x.stack.data, sp)]

\* the body of pushToStack's for loop: grow, then data[stackPointer++] = byte
pushByte(x, byte, steps, fails) == storeByte(growLoop(x, steps, fails), byte)

\* mutant: for (i = 0; i < dataSize - 1; i++), the last byte left out
RECURSIVE pushLoop_SkipLast(_, _, _, _, _, _)
pushLoop_SkipLast(x, data, dataSize, i, steps, fails) ==
    IF i < dataSize - 1
    THEN pushLoop_SkipLast(pushByte(x, data[i + 1], steps, fails),
                           data, dataSize, i + 1, steps, fails)
    ELSE x

RECURSIVE pushLoop(_, _, _, _, _, _)
pushLoop(x, data, dataSize, i, steps, fails) ==
    IF i < dataSize
    THEN pushLoop(pushByte(x, data[i + 1], steps, fails),
                  data, dataSize, i + 1, steps, fails)
    ELSE x

\* mutant: the capacity check made once before the loop as well, so that a
\* full stack grows even when there is nothing to push
pushToStack_GrowFirst(st, data, dataSize, steps, fails) ==
    pushLoop(growLoop([stack |-> st, buffer |-> NULL, grows |-> 0,
                       touched |-> {}, faults |-> {}], steps, fails),
             data, dataSize, 0, steps, fails)

\* void pushToStack(Stack *stack, char *data, unsigned long dataSize)
pushToStack(st, data, dataSize, steps, fails) ==
    pushLoop(Call(st, NULL), data, dataSize, 0, steps, fails)

\* mutant: --stackPointer without the zeroing write
popByte_NoZero(x) ==
    LET sp == (x.stack.stackPointer - 1) % Modulus
    IN [x EXCEPT !.stack.stackPointer = sp]

\* mutant: a pop that stops at an empty stack
popByte_Checked(x) ==
    IF x.stack.stackPointer = 0 THEN x
    ELSE LET sp == (x.stack.stackPointer - 1) % Modulus
         IN [x EXCEPT !.stack.stackPointer = sp,
                      !.stack.data = Store(@, sp, 0),
                      !.touched = @ \cup {sp},
                      !.faults = @ \cup Fault(x.stack.data, sp)]

\* the body of popStackWithoutBuffer's loop: data[--stackPointer] = 0
popByte(x) ==
    LET sp == (x.stack.stackPointer - 1) % Modulus
    IN [x EXCEPT !.stack.stackPointer = sp,
                 !.stack.data = Store(@, sp, 0),
                 !.touched = @ \cup {sp},
                 !.faults = @ \cup Fault(x.stack.data, sp)]

RECURSIVE popLoop(_, _, _)
popLoop(x, dataSize, i) ==
    IF i < dataSize THEN popLoop(popByte(x), dataSize, i + 1) ELSE x

\* mutant: for (i = 1; ...), one byte fewer popped
popStackWithoutBuffer_OneLess(st, dataSize) ==
    popLoop([stack |-> st, buffer |-> NULL, grows |-> 0, touched |-> {},
             faults |-> {}], dataSize, 1)

\* void popStackWithoutBuffer(Stack *stack, unsigned long dataSize)
popStackWithoutBuffer(st, dataSize) == popLoop(Call(st, NULL), dataSize, 0)

\* mutant: buffer[i] = data[stackPointer--], the decrement after the read
popByteToBuffer_PostDecrement(x, i) ==
    LET sp == (x.stack.stackPointer - 1) % Modulus
    IN [x EXCEPT !.buffer = Store(@, i, Load(x.stack.data, (sp + 1) % Modulus)),
                 !.stack.stackPointer = sp,
                 !.stack.data = Store(@, sp, 0),
                 !.touched = @ \cup {sp, (sp + 1) % Modulus},
                 !.faults = @ \cup Fault(x.stack.data, sp)
                              \cup Fault(x.stack.data, (sp + 1) % Modulus)
                              \cup Fault(x.buffer, i)]

\* mutant: the copy without the zeroing write
popByteToBuffer_NoZero(x, i) ==
    LET sp == (x.stack.stackPointer - 1) % Modulus
    IN [x EXCEPT !.buffer = Store(@, i, Load(x.stack.data, sp)),
                 !.stack.stackPointer = sp,
                 !.touched = @ \cup {sp},
                 !.faults = @ \cup Fault(x.stack.data, sp)
                              \cup Fault(x.buffer, i)]

\* the body of popStackToBuffer's loop:
\* buffer[i] = data[--stackPointer]; data[stackPointer] = 0
popByteToBuffer(x, i) ==
    LET sp == (x.stack.stackPointer - 1) % Modulus
    IN [x EXCEPT !.buffer = Store(@, i, Load(x.stack.data, sp)),
                 !.stack.stackPointer = sp,
                 !.stack.data = Store(@, sp, 0),
                 !.touched = @ \cup {sp},
                 !.faults = @ \cup Fault(x.stack.data, sp)
                              \cup Fault(x.buffer, i)]

\* mutant: buffer[dataSize - 1 - i] = ..., the buffer filled from its end
RECURSIVE popToBufferLoop_Backward(_, _, _)
popToBufferLoop_Backward(x, dataSize, i) ==
    IF i < dataSize
    THEN popToBufferLoop_Backward(popByteToBuffer(x, dataSize - 1 - i),
                                  dataSize, i + 1)
    ELSE x

RECURSIVE popToBufferLoop(_, _, _)
popToBufferLoop(x, dataSize, i) ==
    IF i < dataSize
    THEN popToBufferLoop(popByteToBuffer(x, i), dataSize, i + 1)
    ELSE x

\* void popStackToBuffer(Stack *stack, char *buffer, unsigned long dataSize)
popStackToBuffer(st, buffer, dataSize) ==
    popToBufferLoop(Call(st, buffer), dataSize, 0)

\* mutant: a popStack that gives the freed capacity back (shrink on pop)
popStack_Shrink(st, dataSize, ok) ==
    LET x == popStackToBuffer(st, malloc(dataSize, ok), dataSize)
    IN [x EXCEPT !.stack.dataSize = x.stack.stackPointer,
                 !.stack.data = realloc(@, x.stack.stackPointer, TRUE)]

\* char *popStack(Stack *stack, unsigned long dataSize)
popStack(st, dataSize, ok) ==
    popStackToBuffer(st, malloc(dataSize, ok), dataSize)

\* mutant: slice[i] = data[i], from forgotten
sliceByte_IgnoreFrom(x, from, i) ==
    [x EXCEPT !.buffer = Store(@, i, Load(x.stack.data, i)),
              !.touched = @ \cup {i},
              !.faults = @ \cup Fault(x.stack.data, i) \cup Fault(x.buffer, i)]

\* the body of getStackSlice's loop: slice[i] = data[from + i]
sliceByte(x, from, i) ==
    LET at == (from + i) % Modulus
    IN [x EXCEPT !.buffer = Store(@, i, Load(x.stack.data, at)),
                 !.touched = @ \cup {at},
                 !.faults = @ \cup Fault(x.stack.data, at)
                              \cup Fault(x.buffer, i)]

RECURSIVE sliceLoop(_, _, _, _)
sliceLoop(x, from, n, i) ==
    IF i < n THEN sliceLoop(sliceByte(x, from, i), from, n, i + 1) ELSE x

\* char *getStackSlice(Stack *stack, unsigned long from, unsigned long to)
getStackSlice_View(st, from, to, ok) ==
    LET n == (to - from) % Modulus
    IN [Call(st, [null |-> FALSE,
                  mem |-> [k \in 1 .. n |-> Load(st.data, from + k - 1)],
                  alias |-> TRUE, at |-> from])
          EXCEPT !.touched = {from + k : k \in 0 .. n - 1}]

getStackSlice(st, from, to, ok) ==
    LET n == (to - from) % Modulus
    IN sliceLoop(Call(st, malloc(n, ok)), from, n, 0)

----------------------------------------------------------------------------
(* The state machine: one action per call of a function of stack.c *)

\* a destroyStack that releases nothing
destroyStack_Leak(st) == [stack |-> st, freed |-> <<>>]

\* destroyStack: free(stack->data); the Stack object itself is left as it is,
\* its data pointer still naming the released block
destroyStack(st) == [stack |-> st, freed |-> <<st.data>>]

\* the provider's answers during one call when the configuration is fixed
ConstantSteps == [k \in 1 .. MaxCount + 1 |-> config.stackExpansionStepSize]

\* the scenario of the specification: initialStackSize = 4,
\* expansionStepSize = 4, and after create the calls push "AB", push "CDE"
\* (ASCII), pop(3), slice(0, 2)
ScenarioAB == <<65, 66>>
ScenarioCDE == <<67, 68, 69>>
ScenarioConfig == [initialStackSize |-> 4, stackExpansionStepSize |-> 4]

CallOf(op, data, count, from, to) ==
    [op |-> op, data |-> data, count |-> count, from |-> from, to |-> to]

Scenario ==
    << CallOf("pushToStack", ScenarioAB, 2, 0, 0),
       CallOf("pushToStack", ScenarioCDE, 3, 0, 0),
       CallOf("popStack", <<>>, 3, 0, 0),
       CallOf("getStackSlice", <<>>, 0, 0, 2) >>

\* how many calls of the scenario the calls since create have followed, call
\* for call; OffScenario once a call was another one
OffScenario == 0 - 1

Follow(at, call) ==
    IF at # OffScenario /\ at < Len(Scenario) /\ Scenario[at + 1] = call
    THEN at + 1
    ELSE OffScenario

\* what the model remembers of a call: its arguments, the buffer it returned
\* or filled, the length and capacity it started from, the call record, and
\* for a pop whether it takes back exactly the push that came right before it
\* (and how often that push grew the stack), and how far the calls so far
\* follow the scenario
Record(op, data, count, from, to, x) ==
    [op |-> op, data |-> data, count |-> count, from |-> from, to |-> to,
     ret |-> x.buffer, sp0 |-> stack.stackPointer, cap0 |-> stack.dataSize,
     grows |-> x.grows, touched |-> x.touched, faults |-> x.faults,
     undo |-> IF /\ op \in {"popStackWithoutBuffer", "popStackToBuffer", "popStack"}
                 /\ last.op = "pushToStack"
                 /\ last.count = count
              THEN [push |-> TRUE, grows |-> last.grows]
              ELSE [push |-> FALSE, grows |-> 0],
     scenario |-> Follow(last.scenario, CallOf(op, data, count, from, to))]

PopOps == {"popStackWithoutBuffer", "popStackToBuffer", "popStack"}

\* no call is in progress
Idle == [active |-> FALSE]

\* the sum of the first n of steps
RECURSIVE SumOf(_, _)
SumOf(steps, n) == IF n = 0 THEN 0 ELSE steps[n] + SumOf(steps, n - 1)

\* what the caller sees through a pointer it holds once the Stack is st: the
\* cells of a block of its own are as they were, cells of the stack's
\* backing store are what the backing store holds now
Seen(ptr, st) ==
    IF ptr.null \/ ~ptr.alias THEN ptr
    ELSE [ptr EXCEPT !.mem = [k \in 1 .. Len(ptr.mem) |->
                                 Load(st.data, ptr.at + k - 1)]]

\* a call returns: the Stack is what the call left; after a faulting access
\* (through NULL or outside the block) the program has no defined behaviour
\* and the model stops, keeping the values the call computed
Return(op, data, count, from, to, x) ==
    /\ stack' = x.stack
    /\ status' = IF x.faults = {} THEN "Live" ELSE "Undefined"
    /\ last' = Record(op, data, count, from, to, x)
    /\ held' = Seen(held, x.stack)

Keep(s, n) == SubSeq(s, 1, IF n <= Len(s) THEN Len(s) - n ELSE 0)

\* newStack() with the provider returning cfg.initialStackSize to the first
\* consultation and init2 to the second, malloc succeeding or not
Construct(cfg, init2, ok) ==
    /\ config = cfg
    /\ stack = newStack(cfg.initialStackSize, init2, ok)
    /\ status = "Live"
    /\ last = [op |-> "newStack", data |-> <<>>, count |-> 0, from |-> 0,
               to |-> 0, ret |-> NULL, sp0 |-> 0, cap0 |-> 0, grows |-> 0,
               touched |-> {}, faults |-> {},
               undo |-> [push |-> FALSE, grows |-> 0], scenario |-> 0]
    /\ pushed = 0
    /\ popped = 0
    /\ content = <<>>
    /\ fetched = 0
    /\ released = <<>>
    /\ held = NULL
    /\ run = Idle

\* newStack() with a provider that answers cfg every time
Create(cfg, ok) == Construct(cfg, cfg.initialStackSize, ok)

Configs == [initialStackSize : InitialSizes, stackExpansionStepSize : StepSizes]

Init == \E cfg \in Configs : Create(cfg, TRUE)

\* pushToStack(&stack, data, count), the reallocs of fails failing
Push(data, count, fails) ==
    /\ status = "Live"
    /\ ~run.active
    /\ Return("pushToStack", data, count, 0, 0,
              pushToStack(stack, data, count, ConstantSteps, fails))
    /\ pushed' = pushed + count
    /\ content' = content \o SubSeq(data, 1, count)
    /\ fetched' = (fetched + SumOf(ConstantSteps, last'.grows)) % Modulus
    /\ UNCHANGED <<config, popped, released, run>>

\* popStackWithoutBuffer(&stack, count)
PopWithoutBuffer(count) ==
    /\ status = "Live"
    /\ ~run.active
    /\ Return("popStackWithoutBuffer", <<>>, count, 0, 0,
              popStackWithoutBuffer(stack, count))
    /\ popped' = popped + count
    /\ content' = Keep(content, count)
    /\ UNCHANGED <<config, pushed, fetched, released, run>>

\* popStackToBuffer(&stack, buffer, count), buffer a block of count bytes
\* the caller owns
PopToBuffer(count) ==
    /\ status = "Live"
    /\ ~run.active
    /\ Return("popStackToBuffer", <<>>, count, 0, 0,
              popStackToBuffer(stack, malloc(count, TRUE), count))
    /\ popped' = popped + count
    /\ content' = Keep(content, count)
    /\ UNCHANGED <<config, pushed, fetched, released, run>>

\* popStack(&stack, count), its malloc succeeding or not
Pop(count, ok) ==
    /\ status = "Live"
    /\ ~run.active
    /\ Return("popStack", <<>>, count, 0, 0, popStack(stack, count, ok))
    /\ popped' = popped + count
    /\ content' = Keep(content, count)
    /\ UNCHANGED <<config, pushed, fetched, released, run>>

\* getStackSlice(&stack, from, to), its malloc succeeding or not
Slice(from, to, ok) ==
    /\ status = "Live"
    /\ ~run.active
    /\ Return("getStackSlice", <<>>, 0, from, to,
              getStackSlice(stack, from, to, ok))
    /\ UNCHANGED <<config, pushed, popped, content, fetched, released, run>>

\* a caller pushes all of data, or none of a data of at most one byte
\* destroyStack(&stack): the block handed to free is released, the Stack is
\* Destroyed from here on
Destroy ==
    /\ status = "Live"
    /\ ~run.active
    /\ LET d == destroyStack(stack)
       IN /\ stack' = d.stack
          /\ released' = released \o d.freed
          /\ last' = Record("destroyStack", <<>>, 0, 0, 0, Call(d.stack, NULL))
    /\ status' = "Destroyed"
    /\ UNCHANGED <<config, pushed, popped, content, fetched, held, run>>

PushCounts(data) == {Len(data)} \cup (IF Len(data) <= 1 THEN {0} ELSE {})

\* the counts a caller that respects count <= length may pop
ValidCounts == 0 .. Min(MaxCount, stack.stackPointer)

\* the (from, to) a caller that respects 0 <= from <= to <= capacity may
\* slice, at most MaxCount bytes at a time
ValidSlices ==
    {ft \in (0 .. stack.dataSize) \X (0 .. stack.dataSize) :
        ft[1] <= ft[2] /\ ft[2] - ft[1] <= MaxCount}

\* a caller pushes while the behaviour's budget of bytes lasts
MayPush(count, budget) == pushed + count <= budget

\* callers that respect the preconditions, allocations that succeed
Next ==
    \/ \E data \in Inputs : \E count \in PushCounts(data) :
          MayPush(count, MaxPushed) /\ Push(data, count, {})
    \/ \E count \in ValidCounts : PopWithoutBuffer(count)
    \/ \E count \in ValidCounts : PopToBuffer(count)
    \/ \E count \in ValidCounts : Pop(count, TRUE)
    \/ \E ft \in ValidSlices : Slice(ft[1], ft[2], TRUE)

Spec == Init /\ [][Next]_vars

\* the same callers when any allocation may fail: malloc in newStack,
\* popStack and getStackSlice, any of the reallocs of a push
InitAlloc == \E cfg \in Configs : \E ok \in BOOLEAN : Create(cfg, ok)

NextAlloc ==
    \/ \E data \in Inputs : \E count \in PushCounts(data) :
          \E fails \in SUBSET (1 .. MaxCount) :
             MayPush(count, MaxPushed) /\ Push(data, count, fails)
    \/ \E count \in ValidCounts : PopWithoutBuffer(count)
    \/ \E count \in ValidCounts : PopToBuffer(count)
    \/ \E count \in ValidCounts : \E ok \in BOOLEAN : Pop(count, ok)
    \/ \E ft \in ValidSlices : \E ok \in BOOLEAN : Slice(ft[1], ft[2], ok)

SpecAlloc == InitAlloc /\ [][NextAlloc]_vars

\* callers that pop any count up to MaxCount, whatever the length
NextUnchecked ==
    \/ \E data \in Inputs : \E count \in PushCounts(data) :
          MayPush(count, MaxPushed) /\ Push(data, count, {})
    \/ \E count \in 0 .. MaxCount : PopWithoutBuffer(count)
    \/ \E count \in 0 .. MaxCount : PopToBuffer(count)
    \/ \E count \in 0 .. MaxCount : Pop(count, TRUE)
    \/ \E ft \in ValidSlices : Slice(ft[1], ft[2], TRUE)

SpecUnchecked == Init /\ [][NextUnchecked]_vars

\* The calls followed statement by statement: a call begins, every step is
\* one iteration of one of its loops, and the call returns when its for
\* loop is done.  n is the bound of the for loop, i its counter.
Begin(op, data, count, from, to, n, buffer) ==
    /\ status = "Live"
    /\ ~run.active
    /\ run' = [active |-> TRUE, op |-> op, data |-> data, count |-> count,
               from |-> from, to |-> to, n |-> n, i |-> 0, fetched0 |-> fetched,
               x |-> Call(stack, buffer)]
    /\ UNCHANGED <<config, stack, status, last, pushed, popped, content,
                   fetched, released, held>>

BeginPush(data, count) == Begin("pushToStack", data, count, 0, 0, count, NULL)

BeginPopWithoutBuffer(count) ==
    Begin("popStackWithoutBuffer", <<>>, count, 0, 0, count, NULL)

BeginPopToBuffer(count) ==
    Begin("popStackToBuffer", <<>>, count, 0, 0, count, malloc(count, TRUE))

BeginPop(count) ==
    Begin("popStack", <<>>, count, 0, 0, count, malloc(count, TRUE))

BeginSlice(from, to) ==
    Begin("getStackSlice", <<>>, 0, from, to, (to - from) % Modulus,
          malloc((to - from) % Modulus, TRUE))

InLoop(op) == run.active /\ run.op = op /\ run.i < run.n

\* one iteration of pushToStack's while loop; the step is what the provider
\* returns now.  The ghost count of growths stops counting at Modulus
GrowStep ==
    /\ InLoop("pushToStack")
    /\ needsGrowth(run.x)
    /\ LET g == growOnce(run.x, config.stackExpansionStepSize, TRUE)
       IN run' = [run EXCEPT !.x = [g EXCEPT !.grows = Min(@, Modulus)]]
    /\ fetched' = (fetched + config.stackExpansionStepSize) % Modulus
    /\ UNCHANGED <<config, stack, status, last, pushed, popped, content,
                   released, held>>

\* the store of pushToStack's for loop, once the while loop is left
StoreStep ==
    /\ InLoop("pushToStack")
    /\ ~needsGrowth(run.x)
    /\ run' = [run EXCEPT !.x = storeByte(@, run.data[run.i + 1]),
                          !.i = @ + 1]
    /\ UNCHANGED <<config, stack, status, last, pushed, popped, content,
                   fetched, released, held>>

\* one iteration of the for loop of a pop
PopStep ==
    /\ \E op \in PopOps : InLoop(op)
    /\ run' = [run EXCEPT !.x = IF run.op = "popStackWithoutBuffer"
                                THEN popByte(@)
                                ELSE popByteToBuffer(@, run.i),
                          !.i = @ + 1]
    /\ UNCHANGED <<config, stack, status, last, pushed, popped, content,
                   fetched, released, held>>

\* one iteration of getStackSlice's for loop
SliceStep ==
    /\ InLoop("getStackSlice")
    /\ run' = [run EXCEPT !.x = sliceByte(@, run.from, run.i), !.i = @ + 1]
    /\ UNCHANGED <<config, stack, status, last, pushed, popped, content,
                   fetched, released, held>>

\* the for loop is done: the call returns
Finish ==
    /\ run.active
    /\ run.i >= run.n
    /\ Return(run.op, run.data, run.count, run.from, run.to, run.x)
    /\ run' = Idle
    /\ pushed' = IF run.op = "pushToStack" THEN pushed + run.count ELSE pushed
    /\ popped' = IF run.op \in PopOps THEN popped + run.count ELSE popped
    /\ content' = IF run.op = "pushToStack"
                  THEN content \o SubSeq(run.data, 1, run.count)
                  ELSE IF run.op \in PopOps THEN Keep(content, run.count)
                  ELSE content
    /\ UNCHANGED <<config, fetched, released>>

\* the program's own steps, which it takes whenever it can
Step ==
    \/ GrowStep
    \/ StoreStep
    \/ PopStep
    \/ SliceStep
    \/ Finish

\* the configuration changes: getStackExpansionStepSize() returns step from
\* now on.  The only consultations are those of the while loop, so a change
\* at any earlier moment is the same as one right before the loop's body
Reconfigure(step) ==
    /\ status = "Live"
    /\ InLoop("pushToStack")
    /\ needsGrowth(run.x)
    /\ step # config.stackExpansionStepSize
    /\ config' = [config EXCEPT !.stackExpansionStepSize = step]
    /\ UNCHANGED <<stack, status, last, pushed, popped, content, fetched,
                   released, held, run>>

\* callers that push and pop within the preconditions, followed step by
\* step, under a configuration that changes at any moment
NextSteps ==
    \/ \E data \in Inputs : \E count \in PushCounts(data) :
          MayPush(count, MaxPushed) /\ BeginPush(data, count)
    \/ \E count \in ValidCounts : BeginPopWithoutBuffer(count)
    \/ GrowStep
    \/ StoreStep
    \/ PopStep
    \/ Finish
    \/ \E step \in StepSizes : Reconfigure(step)

SpecSteps == Init /\ [][NextSteps]_vars

\* callers that push MaxCount zero bytes at a time for as long as an
\* unsigned long can count them, pop and slice MaxCount bytes at a time
\* within the preconditions, all followed step by step; a call in progress
\* goes on whenever it can
ZeroInput == [k \in 1 .. MaxCount |-> 0]

NextFair ==
    \/ MayPush(MaxCount, Modulus + MaxCount) /\ BeginPush(ZeroInput, MaxCount)
    \/ \E count \in ValidCounts \cap {MaxCount} : BeginPopWithoutBuffer(count)
    \/ \E count \in ValidCounts \cap {MaxCount} : BeginPopToBuffer(count)
    \/ \E count \in ValidCounts \cap {MaxCount} : BeginPop(count)
    \/ \E to \in {MaxCount} : to <= stack.dataSize /\ BeginSlice(0, to)
    \/ Step

SpecFair == Init /\ [][NextFair]_vars /\ WF_vars(Step)

\* The caller keeps the buffer the last popStack or getStackSlice returned;
\* it keeps one buffer
KeepReturned ==
    /\ status = "Live"
    /\ ~run.active
    /\ held.null
    /\ last.op \in {"popStack", "getStackSlice"}
    /\ ~last.ret.null
    /\ Len(last.ret.mem) >= 1
    /\ held' = last.ret
    /\ UNCHANGED <<config, stack, status, last, pushed, popped, content,
                   fetched, released, run>>

\* a byte no push of the model stores: what the caller writes to its buffer
Mark == MaxByte + 1

\* the caller writes held[i] = v, once; when held points into the stack's
\* backing store, that is where the byte goes
WriteHeld(i, v) ==
    /\ status = "Live"
    /\ ~run.active
    /\ InBlock(held, i)
    /\ \A k \in 1 .. Len(held.mem) : held.mem[k] # v
    /\ held' = Store(held, i, v)
    /\ stack' = IF held.alias
                THEN [stack EXCEPT !.data = Store(@, held.at + i, v)]
                ELSE stack
    /\ UNCHANGED <<config, status, last, pushed, popped, content, fetched,
                   released, run>>

\* callers that respect the preconditions, keep a buffer popStack or
\* getStackSlice returned and write to it, over a shorter budget of pushed
\* bytes than Spec's
OwnerBudget == MaxPushed - 2

NextOwner ==
    \/ \E data \in Inputs : \E count \in PushCounts(data) :
          MayPush(count, OwnerBudget) /\ Push(data, count, {})
    \/ \E count \in ValidCounts : Pop(count, TRUE)
    \/ \E ft \in ValidSlices : Slice(ft[1], ft[2], TRUE)
    \/ KeepReturned
    \/ \E i \in 0 .. MaxCount - 1 : WriteHeld(i, Mark)

SpecOwner == Init /\ [][NextOwner]_vars

\* callers that respect the preconditions and destroy the stack at some point
NextLife ==
    \/ Next
    \/ Destroy

SpecLife == Init /\ [][NextLife]_vars

\* a provider whose answers change between the two consultations newStack
\* makes of getInitialStackSize()
InitProvider ==
    \E cfg \in Configs : \E init2 \in InitialSizes : Construct(cfg, init2, TRUE)

SpecProvider == InitProvider /\ [][Next]_vars

\* the scenario of the specification: initialStackSize = 4,
\* expansionStepSize = 4, callers that push "AB" and "CDE" (ASCII), pop two
\* or three bytes and slice

InitScenario == Create(ScenarioConfig, TRUE)

NextScenario ==
    \/ \E data \in {ScenarioAB, ScenarioCDE} :
          /\ MayPush(Len(data), Len(ScenarioAB) + Len(ScenarioCDE))
          /\ Push(data, Len(data), {})
    \/ \E count \in ValidCounts \cap {2, 3} : PopWithoutBuffer(count)
    \/ \E count \in ValidCounts \cap {2, 3} : PopToBuffer(count)
    \/ \E count \in ValidCounts \cap {2, 3} : Pop(count, TRUE)
    \/ \E ft \in ValidSlices : Slice(ft[1], ft[2], TRUE)

SpecScenario == InitScenario /\ [][NextScenario]_vars

----------------------------------------------------------------------------
(* The claims *)

\* the bytes of a block, first cell first
Bytes(ptr) == ptr.mem

\* C1: a pushToStack(S, N) immediately followed by popStackToBuffer or
\* popStack of N bytes returns S reversed, the last pushed byte first, and
\* sets the length back to what it was before the push, growth or not
C1_PushPopRoundTrip ==
    [][(/\ last.op = "pushToStack"
        /\ last'.op \in {"popStack", "popStackToBuffer"}
        /\ last'.count = last.count)
       => (/\ Bytes(last'.ret) = Reverse(SubSeq(last.data, 1, last.count))
           /\ stack'.stackPointer = last.sp0)]_vars

\* a popStack of 3 bytes right after a push of 3 bytes that grew the stack
\* twice and that did not read the same in both directions
C1_Witness ==
    /\ last.op = "popStack"
    /\ last.count = 3
    /\ last.undo = [push |-> TRUE, grows |-> 2]
    /\ Bytes(last.ret)[1] # Bytes(last.ret)[3]

\* C2: the length is the number of bytes pushed minus the number of bytes
\* popped, and 0 <= length <= capacity, in every state between calls
C2_LengthInvariant ==
    /\ stack.stackPointer = pushed - popped
    /\ 0 <= stack.stackPointer
    /\ stack.stackPointer <= stack.dataSize

\* after pushes and pops a push filled the stack
C2_Witness ==
    /\ popped >= 2
    /\ pushed >= 4
    /\ stack.stackPointer = stack.dataSize
    /\ last.op = "pushToStack"
    /\ last.count > 0

CeilDiv(a, b) == (a + b - 1) \div b

\* C3: the capacity is the initial size plus a multiple of the step and at
\* least the length; a push leaves it alone when the bytes fit and otherwise
\* adds the least multiple of the step that makes them fit; and the bytes
\* below the length are the bytes pushed and not yet popped, in push order
C3_GrowthCorrectness ==
    LET step == config.stackExpansionStepSize
        L == last.sp0
        C == last.cap0
    IN /\ \E k \in 0 .. MaxPushed + 1 :
             stack.dataSize = config.initialStackSize + k * step
       /\ stack.dataSize >= stack.stackPointer
       /\ last.op = "pushToStack" =>
             stack.dataSize =
                 IF L + last.count <= C THEN C
                 ELSE C + CeilDiv(L + last.count - C, step) * step
       /\ ~stack.data.null
       /\ Len(stack.data.mem) >= stack.stackPointer
       /\ SubSeq(stack.data.mem, 1, stack.stackPointer) = content

\* a push onto a stack that held bytes grew it twice
C3_Witness ==
    /\ last.op = "pushToStack"
    /\ last.grows >= 2
    /\ last.sp0 >= 2
    /\ content[1] # content[2]

\* C4: after a pop of k bytes the k slots from the new length on hold 0, and
\* a slice of them is k zero bytes
C4_ZeroOnPop ==
    last.op \in PopOps =>
        LET k == last.count
            n == stack.stackPointer
        IN /\ \A i \in n .. n + k - 1 : Load(stack.data, i) = 0
           /\ Bytes(getStackSlice(stack, n, n + k, TRUE).buffer)
                  = [i \in 1 .. k |-> 0]

\* a pop took three bytes, not all of them 0
C4_Witness ==
    /\ last.op \in PopOps
    /\ last.count = 3
    /\ last.sp0 = stack.stackPointer + 3
    /\ last.op = "popStack"
    /\ \A i \in 1 .. 3 : Bytes(last.ret)[i] # 0

\* C5: getStackSlice(from, to) returns to - from bytes, the i-th of them the
\* content of data[from + i]; after a push of a, b, c onto an empty stack
\* slice(0, 3) is a, b, c and pop(3) is c, b, a
C5_SliceForwardOrder ==
    /\ last.op = "getStackSlice" =>
          /\ Len(Bytes(last.ret)) = last.to - last.from
          /\ \A i \in 0 .. last.to - last.from - 1 :
                Bytes(last.ret)[i + 1] = Load(stack.data, last.from + i)
    /\ (last.op = "pushToStack" /\ last.sp0 = 0 /\ last.count = 3) =>
          /\ Bytes(getStackSlice(stack, 0, 3, TRUE).buffer) = last.data
          /\ Bytes(popStack(stack, 3, TRUE).buffer) = Reverse(last.data)

\* a slice of three pushed bytes that do not read the same in both directions
C5_Witness ==
    /\ last.op = "getStackSlice"
    /\ last.to - last.from = 3
    /\ last.to <= stack.stackPointer
    /\ Bytes(last.ret)[1] # Bytes(last.ret)[3]

\* C6: a failed allocation is fatal: no Live stack has a NULL data, no call
\* accesses memory through NULL, and popStack and getStackSlice return no
\* NULL buffer to a program that goes on
C6_AllocationFailureFatal ==
    /\ status = "Live" => ~stack.data.null
    /\ "null" \notin last.faults
    /\ (status = "Live" /\ last.op \in {"popStack", "getStackSlice"})
          => ~last.ret.null

\* C7: a pop of more bytes than the length is carried out unchecked: the
\* length ends at (length - count) modulo 2^LongBits, above the capacity,
\* and every decrement past 0 zeroes a slot outside [0, capacity)
C7_UnderflowWraps ==
    (last.op \in PopOps /\ last.count > last.sp0) =>
        /\ stack.stackPointer = Modulus - (last.count - last.sp0)
        /\ stack.stackPointer > stack.dataSize
        /\ \A j \in 1 .. last.count - last.sp0 :
              /\ Modulus - j \in last.touched
              /\ Modulus - j >= stack.dataSize
        /\ "bounds" \in last.faults
        /\ stack.dataSize = last.cap0

\* a pop of three bytes from a stack that held one
C7_Witness ==
    /\ last.op \in PopOps
    /\ last.sp0 = 1
    /\ last.count = 3
    /\ stack.stackPointer = Modulus - 2

\* C8: pushToStack(_, 0) changes nothing of the Stack, grows nothing and
\* touches no slot, full stack or not; getStackSlice(k, k) returns an empty
\* buffer, changes nothing of the Stack and touches no slot
C8_EmptyOperations ==
    [][/\ (last'.op = "pushToStack" /\ last'.count = 0) =>
             /\ stack' = stack
             /\ last'.grows = 0
             /\ last'.touched = {}
       /\ (last'.op = "getStackSlice" /\ last'.from = last'.to) =>
             /\ stack' = stack
             /\ ~last'.ret.null
             /\ Bytes(last'.ret) = <<>>
             /\ last'.touched = {}]_vars

\* a push of no bytes onto a full stack that holds bytes
C8_Witness ==
    /\ last.op = "pushToStack"
    /\ last.count = 0
    /\ last.data # <<>>
    /\ stack.stackPointer = stack.dataSize
    /\ stack.stackPointer >= 2

\* C9: no call lowers the capacity; pops and slices leave it as it is, and
\* it changes only in a push that had a growth event
C9_CapacityNeverShrinks ==
    [][/\ stack'.dataSize >= stack.dataSize
       /\ last'.op \in PopOps \cup {"getStackSlice"} =>
             stack'.dataSize = stack.dataSize
       /\ stack'.dataSize # stack.dataSize =>
             (last'.op = "pushToStack" /\ last'.grows > 0)]_vars

\* a stack that grew was popped empty and kept its capacity
C9_Witness ==
    /\ last.op \in PopOps
    /\ last.count > 0
    /\ stack.stackPointer = 0
    /\ stack.dataSize > config.initialStackSize

\* C10: with initialStackSize = 4 and expansionStepSize = 4: after the push
\* of "AB" length = 2 and capacity = 4; after the push of "CDE" length = 5
\* and capacity = 8, by one growth event; popStack(3) then returns "EDC" and
\* leaves length = 2 and slots 2..4 at 0; getStackSlice(0, 2) then returns
\* "AB".  last.scenario = k in the state after the k-th call of the scenario.
C10_Scenario ==
    /\ config = ScenarioConfig
    /\ last.scenario = 0 =>
          stack.stackPointer = 0 /\ stack.dataSize = 4
    /\ last.scenario = 1 =>
          stack.stackPointer = 2 /\ stack.dataSize = 4 /\ last.grows = 0
    /\ last.scenario = 2 =>
          stack.stackPointer = 5 /\ stack.dataSize = 8 /\ last.grows = 1
    /\ last.scenario = 3 =>
          /\ Bytes(last.ret) = <<69, 68, 67>>
          /\ stack.stackPointer = 2
          /\ stack.dataSize = 8
          /\ \A i \in 2 .. 4 : Load(stack.data, i) = 0
    /\ last.scenario = 4 =>
          /\ Bytes(last.ret) = <<65, 66>>
          /\ stack.stackPointer = 2
          /\ stack.dataSize = 8
          /\ \A i \in 2 .. 4 : Load(stack.data, i) = 0

\* the end of the scenario: slice(0, 2) after the pop of "EDC"
C10_Witness == last.scenario = 4 /\ last.op = "getStackSlice" /\ status = "Live"


\* C14: popStackToBuffer(buffer, count) from a stack of length L, count <= L,
\* sets buffer[i] to the old data[L - 1 - i] for every i < count, sets the
\* length to L - count and leaves data[0, L - count) and the capacity as
\* they were
C14_PartialPop ==
    [][last'.op = "popStackToBuffer" =>
          LET L == stack.stackPointer
              count == last'.count
          IN /\ Len(Bytes(last'.ret)) = count
             /\ \A i \in 0 .. count - 1 :
                   Bytes(last'.ret)[i + 1] = Load(stack.data, L - 1 - i)
             /\ stack'.stackPointer = L - count
             /\ \A j \in 0 .. L - count - 1 :
                   Load(stack'.data, j) = Load(stack.data, j)
             /\ stack'.dataSize = stack.dataSize]_vars

\* popStackToBuffer took two different bytes and left at least one
C14_Witness ==
    /\ last.op = "popStackToBuffer"
    /\ last.count = 2
    /\ stack.stackPointer >= 1
    /\ Bytes(last.ret)[1] # Bytes(last.ret)[2]

\* C17: from any state and for any count <= length the three pops leave the
\* same Stack (length, capacity, data), and popStack returns the bytes
\* popStackToBuffer writes into a buffer of count bytes
C17_PopVariantsAgree ==
    \A count \in ValidCounts :
        LET a == popStackWithoutBuffer(stack, count)
            b == popStackToBuffer(stack, malloc(count, TRUE), count)
            c == popStack(stack, count, TRUE)
        IN /\ a.stack = b.stack
           /\ b.stack = c.stack
           /\ Bytes(c.buffer) = Bytes(b.buffer)
           /\ a.stack.stackPointer = stack.stackPointer - count

\* after a pop the stack still holds two different bytes to pop
C17_Witness ==
    /\ last.op \in PopOps
    /\ last.count >= 1
    /\ stack.stackPointer >= 2
    /\ content[Len(content)] # content[Len(content) - 1]

\* C18: every slot in [length, capacity) holds 0 unless it was never written
\* since its allocation, so that no cell of a slice at or past the length is
\* a pushed non-zero byte
C18_NothingAboveLength ==
    /\ \A i \in stack.stackPointer .. stack.dataSize - 1 :
          Load(stack.data, i) \in {0, Undef}
    /\ last.op = "getStackSlice" =>
          \A i \in 0 .. last.to - last.from - 1 :
             last.from + i >= stack.stackPointer
                => Bytes(last.ret)[i + 1] \in {0, Undef}

\* a slice past the length of a stack whose non-zero bytes were popped: it
\* reads a zeroed slot and a slot never written
C18_Witness ==
    /\ last.op = "getStackSlice"
    /\ last.from >= stack.stackPointer
    /\ last.to - last.from = 2
    /\ Bytes(last.ret) = <<0, Undef>>
    /\ popped >= 2
    /\ \A i \in 1 .. Len(content) : content[i] # 0


\* C16: whenever the stack is Live and no call is in progress, the recorded
\* capacity dataSize is the size of the block data points to, after
\* construction and after every growth, also when the provider's answers
\* differ from one consultation to the next
C16_CapacityIsAllocatedSize ==
    (status = "Live" /\ ~run.active) =>
        /\ ~stack.data.null
        /\ Len(Bytes(stack.data)) = stack.dataSize

C15_PerByteGrowth ==
    /\ [](LET st == IF run.active THEN run.x.stack ELSE stack
          IN st.dataSize = (config.initialStackSize + fetched) % Modulus)
    /\ [][(run.active /\ run'.active /\ run.op = "pushToStack") =>
             LET old == run.x.stack
                 new == run'.x.stack
             IN /\ new.dataSize # old.dataSize =>
                      /\ old.stackPointer >= old.dataSize
                      /\ run.i < run.n
                      /\ new.dataSize
                            = old.dataSize + config.stackExpansionStepSize
                      /\ fetched' = fetched + config.stackExpansionStepSize
                      /\ new.stackPointer = old.stackPointer
                      /\ run'.i = run.i
                      /\ \A j \in 0 .. old.stackPointer - 1 :
                            Load(new.data, j) = Load(old.data, j)
                /\ run'.i # run.i =>
                      /\ old.stackPointer < old.dataSize
                      /\ run'.i = run.i + 1
                      /\ Load(new.data, old.stackPointer) = run.data[run.i + 1]
                      /\ new.stackPointer = old.stackPointer + 1
                      /\ new.dataSize = old.dataSize
                      /\ run'.x.faults = {}]_vars

C15_Witness ==
    /\ run.active
    /\ run.op = "pushToStack"
    /\ run.i = 2
    /\ run.x.grows = 2
    /\ fetched - run.fetched0 = 3
    /\ run.x.stack.stackPointer >= 3
    /\ run.x.stack.dataSize = run.x.stack.stackPointer + 1

\* C13: every call returns: a call in progress on a Live stack with
\* length <= capacity, a finite count and a positive step is followed by a
\* state where no call is in progress
C13_EveryCallReturns == run.active ~> ~run.active

\* C11: the buffer popStack or getStackSlice returns is a block of its own,
\* sharing no storage with the stack: a later push or pop leaves the bytes
\* of a buffer the caller kept as they were, a write to that buffer leaves
\* the stack's length, capacity and data as they were, and getStackSlice
\* itself changes none of length, capacity and data
C11_ReturnedBuffersIndependent ==
    /\ [](last.op \in {"popStack", "getStackSlice"} => ~last.ret.alias)
    /\ [][/\ stack' # stack => held' = held
          /\ held' # held => stack' = stack
          /\ (last'.op = "getStackSlice" /\ held' = held) => stack' = stack]_vars

C11_Witness ==
    /\ ~held.null
    /\ \E k \in 1 .. Len(held.mem) : held.mem[k] = Mark
    /\ \E k \in 1 .. Len(held.mem) : held.mem[k] \in Byte
    /\ last.op \in {"pushToStack", "popStack"}
    /\ last.count >= 1
    /\ \A j \in 0 .. stack.dataSize - 1 : Load(stack.data, j) # Mark
====
